---- MODULE Spec2Model ----
(***************************************************************************)
(* Model of the client-side document processing queue of the insurance    *)
(* form extractor front-end (hooks/useDocumentProcessor.ts).               *)
(*                                                                         *)
(* One action is one task of the browser's event loop together with the   *)
(* microtasks it triggers: an addFiles call, a simulator timer firing,    *)
(* the fetch promise settling, the response.json() promise settling.      *)
(*                                                                         *)
(* Nullable / optional JavaScript values are sequences of length 0 or 1:  *)
(* <<>> is null / undefined / absent, <<v>> is the value v.                *)
(*                                                                         *)
(* download is the file last handed to the browser by the merge buttons   *)
(* (components/MergeJsonButton.tsx): Null until one is produced.           *)
(* call holds the arguments (id, updates) of an updateDoc call studied on  *)
(* its own; Null in the specifications of the whole hook.                  *)
(***************************************************************************)
EXTENDS Integers, Sequences, FiniteSets, TLC

VARIABLES documents, activeDocId, processingQueue, isProcessing, tasks, clock, hist,
          download, call

vars == <<documents, activeDocId, processingQueue, isProcessing, tasks, clock, hist,
          download, call>>

\* ------------------------------------------------------------------ bounds
\* Largest number of documents ever added to the registry.
MaxDocs == 2

\* Largest number of files handed to one addFiles call.
MaxBatch == 2

\* Date.now() is the variable clock. It advances between two addFiles calls
\* (two user events never share a millisecond) and is read, not advanced, by
\* the timestamps of processDocument.

\* ------------------------------------------------------ values and options
Null == <<>>

Some(v) == <<v>>

IsNull(o) == o = <<>>

Get(o) == o[1]

\* JavaScript values of the kinds a JSON success field can carry.
JSUndefined == [t |-> "undefined", n |-> 0, s |-> ""]

JSBool(b) == [t |-> "boolean", n |-> IF b THEN 1 ELSE 0, s |-> ""]

JSNum(k) == [t |-> "number", n |-> k, s |-> ""]

JSStr(str) == [t |-> "string", n |-> 0, s |-> str]

\* JavaScript truthiness, as applied by `!json.success`.
Truthy(v) ==
  CASE v.t = "undefined" -> FALSE
    [] v.t = "boolean" -> v.n = 1
    [] v.t = "number" -> v.n # 0
    [] v.t = "string" -> v.s # ""

\* ------------------------------------------------------------- STAGE_FLOW
\* Faulty variant of STAGE_FLOW: the policy detection step is scripted before
\* the text extraction steps.
STAGE_FLOW_OutOfOrder == <<
  [stage |-> "rotation_check",    message |-> "Checking for rotation..."],
  [stage |-> "rotation_check",    message |-> "PDF already correctly oriented"],
  [stage |-> "policy_detection",  message |-> "Detecting policy boundaries..."],
  [stage |-> "text_extraction",   message |-> "Extracting text from pages..."],
  [stage |-> "text_extraction",   message |-> "Combined text saved"],
  [stage |-> "schema_extraction", message |-> "Analyzing document format..."],
  [stage |-> "policy_detection",  message |-> "Using AI to detect claim number patterns..."],
  [stage |-> "claim_extraction",  message |-> "Extracting claims using adaptive prompt..."],
  [stage |-> "validation",        message |-> "Validating extraction..."],
  [stage |-> "validation",        message |-> "Extraction is COMPLETE"] >>

\* The script of the simulator (the check-mark glyphs of three messages and
\* the delay ranges, which only decide when a timer fires, are left out).
STAGE_FLOW == <<
  [stage |-> "rotation_check",    message |-> "Checking for rotation..."],
  [stage |-> "rotation_check",    message |-> "PDF already correctly oriented"],
  [stage |-> "text_extraction",   message |-> "Extracting text from pages..."],
  [stage |-> "text_extraction",   message |-> "Combined text saved"],
  [stage |-> "schema_extraction", message |-> "Analyzing document format..."],
  [stage |-> "policy_detection",  message |-> "Detecting policy boundaries..."],
  [stage |-> "policy_detection",  message |-> "Using AI to detect claim number patterns..."],
  [stage |-> "claim_extraction",  message |-> "Extracting claims using adaptive prompt..."],
  [stage |-> "validation",        message |-> "Validating extraction..."],
  [stage |-> "validation",        message |-> "Extraction is COMPLETE"] >>

\* STAGE_ORDER: the display order of the stages after queued.
STAGE_ORDER ==
  <<"rotation_check", "text_extraction", "schema_extraction", "policy_detection",
    "claim_extraction", "validation", "complete">>

ProcessingStage ==
  {"queued", "rotation_check", "text_extraction", "schema_extraction",
   "policy_detection", "claim_extraction", "validation", "complete", "error"}

\* ------------------------------------------------------------------ files
\* The File objects a user can drop: name and byte size.
Files == {[name |-> "a.pdf", size |-> 1], [name |-> "b.pdf", size |-> 2]}

\* The files dropped in the queue model.
QueueFiles == {[name |-> "a.pdf", size |-> 1]}

\* --------------------------------------------------------------- registry
\* The record addFiles builds for one file.
NewDoc(id, file) ==
  [id |-> id, file |-> file, name |-> file.name, size |-> file.size,
   stage |-> "queued", stageMessage |-> "Waiting in queue...", progress |-> 0,
   result |-> Null, metadata |-> Null, error |-> Null,
   startedAt |-> Null, completedAt |-> Null]

\* { ...d, ...updates }
Merge(d, updates) ==
  [f \in DOMAIN d |-> IF f \in DOMAIN updates THEN updates[f] ELSE d[f]]

\* Faulty variant of UpdateDocs: an update for an identifier that no record
\* carries adds a record (an upsert).
UpdateDocsUpsert(docs, id, updates) ==
  IF \E i \in 1..Len(docs) : docs[i].id = id
  THEN [i \in 1..Len(docs) |-> IF docs[i].id = id THEN Merge(docs[i], updates) ELSE docs[i]]
  ELSE Append(docs, updates)

\* prev.map((d) => (d.id === id ? { ...d, ...updates } : d))
UpdateDocs(docs, id, updates) ==
  [i \in 1..Len(docs) |-> IF docs[i].id = id THEN Merge(docs[i], updates) ELSE docs[i]]

\* History of the writers of each registry record: who wrote it last, how
\* many authoritative (complete / error) writes it has received, and whether
\* a timer of its simulator has fired after such a write.
NewHist == [lastWriter |-> "addFiles", authWrites |-> 0, lateTick |-> FALSE]

Touch(h, docs, id, writer) ==
  [i \in 1..Len(h) |->
     IF docs[i].id = id
     THEN [h[i] EXCEPT !.lastWriter = writer,
                       !.authWrites = @ + (IF writer = "outcome" THEN 1 ELSE 0)]
     ELSE h[i]]

\* A simulator timer of the document `id` fires.
NoteTick(h, docs, id) ==
  [i \in 1..Len(h) |->
     IF docs[i].id = id /\ h[i].authWrites > 0
     THEN [h[i] EXCEPT !.lateTick = TRUE]
     ELSE h[i]]

\* The whole state as one record, so that a handler is a function on states.
Cur ==
  [documents |-> documents, activeDocId |-> activeDocId,
   processingQueue |-> processingQueue, isProcessing |-> isProcessing,
   tasks |-> tasks, clock |-> clock, hist |-> hist, download |-> download,
   call |-> call]

\* The next state is st (st is computed once, then assigned field by field).
Apply(st) ==
  \E s \in {st} :
    /\ documents' = s.documents
    /\ activeDocId' = s.activeDocId
    /\ processingQueue' = s.processingQueue
    /\ isProcessing' = s.isProcessing
    /\ tasks' = s.tasks
    /\ clock' = s.clock
    /\ hist' = s.hist
    /\ download' = s.download
    /\ call' = s.call

\* F(x), with x evaluated once, before F is applied to its value.
Eval(x, F(_)) == CHOOSE r \in {F(v) : v \in {x}} : TRUE

\* updateDoc(id, updates), recording the writer.
updateDoc(st0, id, updates, writer) ==
  Eval(st0, LAMBDA st :
    [st EXCEPT !.documents = UpdateDocs(@, id, updates),
               !.hist = Touch(@, st.documents, id, writer)])

\* ------------------------------------------------------ backend responses
\* A thrown value: an Error object with its message, or some other value.
Error(msg) == [isError |-> TRUE, message |-> msg]

NonError == [isError |-> FALSE, message |-> ""]

\* One extracted claim: its keys and values in insertion order.
ClaimA == << <<"claim_number", "381987">> >>

ClaimB == << <<"claim_number", "42">>, <<"status", "Open">> >>

\* data.extracted_schema: a claims list (possibly missing) plus another field.
Schemas ==
  [claims : {Null, Some(<<>>), Some(<<ClaimA>>), Some(<<ClaimA, ClaimB>>)},
   insured : {Some("ACME")}]

\* data.extraction_metadata
ExtractionMetadatas ==
  {[source_file |-> Some("loss_run.pdf"), method |-> Some("ocr")],
   [source_file |-> Null, method |-> Null]}

\* data.summary; avg_confidence is a number from 0 to 1 held in thousandths.
Summaries ==
  [avg_confidence : {Null, Some(0), Some(4), Some(900)},
   claims_count : {Null, Some(0), Some(1), Some(3)}]

Opt(S) == {Null} \cup {Some(v) : v \in S}

Datas ==
  [extracted_schema : Opt(Schemas),
   extraction_metadata : Opt(ExtractionMetadatas),
   summary : Opt(Summaries)]

\* The JSON documents the backend may answer with.
Bodies ==
  [success : {JSBool(TRUE), JSBool(FALSE), JSUndefined, JSStr("false"), JSNum(1), JSNum(0)},
   error : {Null, Some(""), Some("bad pdf")},
   data : Opt(Datas)]

NoBody == [success |-> JSUndefined, error |-> Null, data |-> Null]

\* fetch() rejected with `reason`.
Rejected(reason) ==
  [kind |-> "reject", reason |-> reason, ok |-> FALSE, statusText |-> "",
   bodyValid |-> FALSE, json |-> NoBody]

\* fetch() resolved with a non-2xx response.
HttpError(statusText) ==
  [kind |-> "http", reason |-> NonError, ok |-> FALSE, statusText |-> statusText,
   bodyValid |-> FALSE, json |-> NoBody]

\* fetch() resolved 2xx, the body is not JSON.
Malformed ==
  [kind |-> "http", reason |-> NonError, ok |-> TRUE, statusText |-> "OK",
   bodyValid |-> FALSE, json |-> NoBody]

\* fetch() resolved 2xx with the JSON document `json`.
Http200(json) ==
  [kind |-> "http", reason |-> NonError, ok |-> TRUE, statusText |-> "OK",
   bodyValid |-> TRUE, json |-> json]

\* The scenario responses of the specification.
ScenarioSuccess ==
  Http200([success |-> JSBool(TRUE), error |-> Null,
           data |-> Some([extracted_schema |-> Some([claims |-> Some(<<ClaimA>>), insured |-> Some("ACME")]),
                          extraction_metadata |-> Null,
                          summary |-> Some([avg_confidence |-> Some(900), claims_count |-> Some(1)])])])

ScenarioBadPdf ==
  Http200([success |-> JSBool(FALSE), error |-> Some("bad pdf"), data |-> Null])

\* 2xx, success true, but no data object: an unexpected response shape.
ScenarioNoData ==
  Http200([success |-> JSBool(TRUE), error |-> Null, data |-> Null])

Failures ==
  {Rejected(Error("Failed to fetch")), Rejected(NonError),
   HttpError("Internal Server Error"), HttpError(""), Malformed}

\* Responses of the queue model: one of each way a request can end.
CoreResponses ==
  {Rejected(Error("Failed to fetch")), HttpError("Internal Server Error"),
   Malformed, ScenarioBadPdf, ScenarioNoData, ScenarioSuccess}

\* Responses of the single-upload model: every shape of answer.
AllResponses == Failures \cup {Http200(b) : b \in Bodies}

\* ----------------------------------------------------- outcome projection
\* Math.round(x * 100) for x = milli / 1000, x >= 0.
RoundPercent(milli) == (milli + 5) \div 10

\* Faulty variant of ErrorUpdate: the catch block forgets the error message.
ErrorUpdateNoMessage(thrown) ==
  [stage |-> "error", stageMessage |-> "Error"]

\* Faulty variant of ErrorUpdate: the message of the thrown error is dropped
\* for the generic text.
ErrorUpdateGeneric(thrown) ==
  [stage |-> "error", error |-> Some("Processing failed"), stageMessage |-> "Error"]

\* The catch block's update (lines 120-124).
ErrorUpdate(thrown) ==
  [stage |-> "error",
   error |-> Some(IF thrown.isError THEN thrown.message ELSE "Processing failed"),
   stageMessage |-> "Error"]

\* Faulty variant of SchemaOf: a schema without a claims list is given an
\* empty one.
SchemaOfNormalised(backendResult) ==
  IF IsNull(backendResult.extracted_schema)
  THEN [claims |-> Some(<<>>), insured |-> Null]
  ELSE [Get(backendResult.extracted_schema) EXCEPT
          !.claims = IF IsNull(@) THEN Some(<<>>) ELSE @]

\* backendResult.extracted_schema || { claims: [] }
SchemaOf(backendResult) ==
  IF IsNull(backendResult.extracted_schema)
  THEN [claims |-> Some(<<>>), insured |-> Null]
  ELSE Get(backendResult.extracted_schema)

\* backendResult.summary?.avg_confidence ? Math.round(avg_confidence * 100) : 95
ConfidenceOf(backendResult) ==
  IF /\ ~IsNull(backendResult.summary)
     /\ ~IsNull(Get(backendResult.summary).avg_confidence)
     /\ Get(Get(backendResult.summary).avg_confidence) # 0
  THEN RoundPercent(Get(Get(backendResult.summary).avg_confidence))
  ELSE 95

\* The left operand of backendResult.summary?.claims_count || ... is truthy.
HasTruthyClaimsCount(backendResult) ==
  /\ ~IsNull(backendResult.summary)
  /\ ~IsNull(Get(backendResult.summary).claims_count)
  /\ Get(Get(backendResult.summary).claims_count) # 0

\* backendResult.summary?.claims_count || schema.claims.length
\* (evaluated only when it does not throw)
ClaimsCountOf(backendResult) ==
  IF HasTruthyClaimsCount(backendResult)
  THEN Get(Get(backendResult.summary).claims_count)
  ELSE Len(Get(SchemaOf(backendResult).claims))

\* x?.field || fallback for the two string fields of extraction_metadata
InsurerOf(backendResult) ==
  IF /\ ~IsNull(backendResult.extraction_metadata)
     /\ ~IsNull(Get(backendResult.extraction_metadata).source_file)
     /\ Get(Get(backendResult.extraction_metadata).source_file) # ""
  THEN Get(Get(backendResult.extraction_metadata).source_file)
  ELSE "Unknown"

FormatOf(backendResult) ==
  IF /\ ~IsNull(backendResult.extraction_metadata)
     /\ ~IsNull(Get(backendResult.extraction_metadata).method)
     /\ Get(Get(backendResult.extraction_metadata).method) # ""
  THEN Get(Get(backendResult.extraction_metadata).method)
  ELSE "standard"

MetadataOf(backendResult) ==
  [insurer |-> InsurerOf(backendResult), format |-> FormatOf(backendResult),
   confidence |-> ConfidenceOf(backendResult),
   claims_count |-> ClaimsCountOf(backendResult)]

\* The success test of line 93: `!json.success` is false.
SuccessFlagAccepted(json) == Truthy(json.success)

\* Faulty variant of ProcessJson: the schema of a body whose success flag is
\* rejected is stored with the error.
ProcessJsonStoresOnFailure(json, now) ==
  IF ~SuccessFlagAccepted(json)
  THEN [stage |-> "error", stageMessage |-> "Error",
        error |-> Some(IF ~IsNull(json.error) /\ Get(json.error) # ""
                       THEN Get(json.error) ELSE "Unknown backend error"),
        result |-> Some([claims |-> Some(<<>>), insured |-> Null])]
  ELSE IF IsNull(json.data)
  THEN ErrorUpdate(Error("Cannot read properties of undefined (reading 'extracted_schema')"))
  ELSE IF ~HasTruthyClaimsCount(Get(json.data)) /\ IsNull(SchemaOf(Get(json.data)).claims)
  THEN ErrorUpdate(Error("Cannot read properties of undefined (reading 'length')"))
  ELSE [stage |-> "complete", stageMessage |-> "Extraction complete",
        result |-> Some(SchemaOf(Get(json.data))),
        metadata |-> Some(MetadataOf(Get(json.data))),
        completedAt |-> Some(now)]

\* Lines 93-116 and the catch of 117-125: the update written for a parsed body.
ProcessJson(json, now) ==
  IF ~SuccessFlagAccepted(json)
  THEN ErrorUpdate(Error(IF ~IsNull(json.error) /\ Get(json.error) # ""
                         THEN Get(json.error) ELSE "Unknown backend error"))
  ELSE IF IsNull(json.data)
  THEN ErrorUpdate(Error("Cannot read properties of undefined (reading 'extracted_schema')"))
  ELSE LET backendResult == Get(json.data)
           schema == SchemaOf(backendResult)
       IN IF ~HasTruthyClaimsCount(backendResult) /\ IsNull(schema.claims)
          THEN ErrorUpdate(Error("Cannot read properties of undefined (reading 'length')"))
          ELSE [stage |-> "complete", stageMessage |-> "Extraction complete",
                result |-> Some(schema), metadata |-> Some(MetadataOf(backendResult)),
                completedAt |-> Some(now)]

\* Faulty variant of ProcessResponse: response.ok is not tested.
ProcessResponseIgnoresStatus(resp) ==
  IF resp.kind = "reject" THEN Some(ErrorUpdate(resp.reason)) ELSE Null

\* Lines 86-90 and 117-125: the update written when the request settles
\* without a body to read; Null when the body is awaited (line 92).
ProcessResponse(resp) ==
  IF resp.kind = "reject" THEN Some(ErrorUpdate(resp.reason))
  ELSE IF ~resp.ok THEN Some(ErrorUpdate(Error("Server error: " \o resp.statusText)))
  ELSE Null

\* response.json() settled: rejected for a malformed body, else lines 93-116.
ProcessBody(resp, now) ==
  IF ~resp.bodyValid
  THEN ErrorUpdate(Error("Unexpected token < in JSON at position 0"))
  ELSE ProcessJson(resp.json, now)

\* --------------------------------------------------------- processDocument
\* One invocation of processDocument: its arguments, where the async function
\* is suspended (pc), its isSimulationRunning flag, the state of its
\* runSimulation loop (sim, with `step` steps of STAGE_FLOW written), and the
\* response its fetch produced.
NewTask(item) ==
  [id |-> item.id, file |-> item.file, pc |-> "fetch",
   isSimulationRunning |-> TRUE, sim |-> "timer", step |-> 0, response |-> Null]

\* Faulty variant of SimulationStep: the loop does not test isSimulationRunning.
SimulationStepUnchecked(st0, k) ==
  Eval(st0, LAMBDA st :
    IF st.tasks[k].step >= Len(STAGE_FLOW)
    THEN [st EXCEPT !.tasks[k].sim = "exited", !.tasks[k].step = 0]
    ELSE [updateDoc(st, st.tasks[k].id,
                    [stage |-> STAGE_FLOW[st.tasks[k].step + 1].stage,
                     stageMessage |-> STAGE_FLOW[st.tasks[k].step + 1].message],
                    "simulator")
            EXCEPT !.tasks[k].step = @ + 1])

\* Faulty variant of SimulationStep: the simulator marks the document
\* complete when its script is exhausted.
SimulationStepCompletes(st0, k) ==
  Eval(st0, LAMBDA st :
    IF ~st.tasks[k].isSimulationRunning
    THEN [st EXCEPT !.tasks[k].sim = "exited", !.tasks[k].step = 0]
    ELSE IF st.tasks[k].step >= Len(STAGE_FLOW)
    THEN [updateDoc(st, st.tasks[k].id, [stage |-> "complete"], "simulator")
            EXCEPT !.tasks[k].sim = "exited", !.tasks[k].step = 0]
    ELSE [updateDoc(st, st.tasks[k].id,
                    [stage |-> STAGE_FLOW[st.tasks[k].step + 1].stage,
                     stageMessage |-> STAGE_FLOW[st.tasks[k].step + 1].message],
                    "simulator")
            EXCEPT !.tasks[k].step = @ + 1])

\* Faulty variant of SimulationStep: every simulator write stamps startedAt
\* again.
SimulationStepRestamps(st0, k) ==
  Eval(st0, LAMBDA st :
    IF st.tasks[k].step >= Len(STAGE_FLOW) \/ ~st.tasks[k].isSimulationRunning
    THEN [st EXCEPT !.tasks[k].sim = "exited", !.tasks[k].step = 0]
    ELSE [updateDoc(st, st.tasks[k].id,
                    [stage |-> STAGE_FLOW[st.tasks[k].step + 1].stage,
                     stageMessage |-> STAGE_FLOW[st.tasks[k].step + 1].message,
                     startedAt |-> Some(st.clock)],
                    "simulator")
            EXCEPT !.tasks[k].step = @ + 1])

\* One iteration of the runSimulation loop of task k (lines 61-71): leave the
\* loop when the script is exhausted or the flag is cleared, else write the
\* next step and wait for its timer.
SimulationStep(st0, k) ==
  Eval(st0, LAMBDA st :
    IF st.tasks[k].step >= Len(STAGE_FLOW) \/ ~st.tasks[k].isSimulationRunning
    THEN [st EXCEPT !.tasks[k].sim = "exited", !.tasks[k].step = 0]
    ELSE [updateDoc(st, st.tasks[k].id,
                    [stage |-> STAGE_FLOW[st.tasks[k].step + 1].stage,
                     stageMessage |-> STAGE_FLOW[st.tasks[k].step + 1].message],
                    "simulator")
            EXCEPT !.tasks[k].step = @ + 1])

\* processDocument(item.id, item.file) up to its first await (lines 55-83):
\* the start write, the first simulator step, the request.
StartDocument(st0, item) ==
  Eval(st0, LAMBDA st :
    SimulationStep(
      [updateDoc(st, item.id,
                 [stage |-> "rotation_check",
                  stageMessage |-> "Starting processing...",
                  startedAt |-> Some(st.clock)],
                 "start")
         EXCEPT !.tasks = Append(@, NewTask(item))],
      Len(st.tasks) + 1))

\* ------------------------------------------------------------ processQueue
\* Faulty variant of DrainQueue: the queue is served from its tail (pop for shift).
DrainQueueLifo(st0) ==
  Eval(st0, LAMBDA st :
    IF Len(st.processingQueue) > 0
    THEN StartDocument([st EXCEPT !.processingQueue = SubSeq(@, 1, Len(@) - 1),
                                  !.activeDocId = Some(st.processingQueue[Len(st.processingQueue)].id)],
                       st.processingQueue[Len(st.processingQueue)])
    ELSE [st EXCEPT !.isProcessing = FALSE])

\* Faulty variant of DrainQueue: the flag is not cleared when the list is drained.
DrainQueueKeepsFlag(st0) ==
  Eval(st0, LAMBDA st :
    IF Len(st.processingQueue) > 0
    THEN StartDocument([st EXCEPT !.processingQueue = Tail(@),
                                  !.activeDocId = Some(Head(st.processingQueue).id)],
                       Head(st.processingQueue))
    ELSE st)

\* Faulty variant of DrainQueue: the flag is cleared inside the loop, when an
\* item is taken, and not only after the loop.
DrainQueueClearsEarly(st0) ==
  Eval(st0, LAMBDA st :
    IF Len(st.processingQueue) > 0
    THEN StartDocument([st EXCEPT !.processingQueue = Tail(@),
                                  !.activeDocId = Some(Head(st.processingQueue).id),
                                  !.isProcessing = FALSE],
                       Head(st.processingQueue))
    ELSE [st EXCEPT !.isProcessing = FALSE])

\* The while loop of processQueue from its test (lines 134-144), up to the
\* await of line 138 or to the end of the function.
DrainQueue(st0) ==
  Eval(st0, LAMBDA st :
    IF Len(st.processingQueue) > 0
    THEN StartDocument([st EXCEPT !.processingQueue = Tail(@),
                                  !.activeDocId = Some(Head(st.processingQueue).id)],
                       Head(st.processingQueue))
    ELSE [st EXCEPT !.isProcessing = FALSE])

\* Faulty variant of processQueue: no test of the isProcessing flag.
processQueueUnguarded(st0) ==
  Eval(st0, LAMBDA st : DrainQueue([st EXCEPT !.isProcessing = TRUE]))

\* processQueue() (lines 130-145)
processQueue(st0) ==
  Eval(st0, LAMBDA st :
    IF st.isProcessing THEN st
    ELSE DrainQueue([st EXCEPT !.isProcessing = TRUE]))

\* Faulty variant of Settle: a failed document is put back on the pending
\* list and requested again.
SettleRetries(st0, k, updates) ==
  Eval(st0, LAMBDA st :
    DrainQueue(
      [updateDoc([st EXCEPT !.tasks[k].pc = "done"], st.tasks[k].id, updates, "outcome")
         EXCEPT !.processingQueue =
                  IF updates.stage = "error"
                  THEN Append(@, [id |-> st.tasks[k].id, file |-> st.tasks[k].file])
                  ELSE @]))

\* Faulty variant of Settle: a failure leaves processDocument and processQueue as an
\* exception, so the loop is not resumed.
SettleRethrows(st0, k, updates) ==
  Eval(st0, LAMBDA st :
    IF updates.stage = "error"
    THEN updateDoc([st EXCEPT !.tasks[k].pc = "done"], st.tasks[k].id, updates, "outcome")
    ELSE DrainQueue(updateDoc([st EXCEPT !.tasks[k].pc = "done"],
                              st.tasks[k].id, updates, "outcome")))

\* processDocument writes its outcome (lines 108-116 or 120-124) and returns;
\* the processQueue that awaited it resumes its loop.
Settle(st0, k, updates) ==
  Eval(st0, LAMBDA st :
    DrainQueue(updateDoc([st EXCEPT !.tasks[k].pc = "done"],
                         st.tasks[k].id, updates, "outcome")))

\* ----------------------------------------------------------------- actions
Init ==
  /\ documents = <<>>
  /\ activeDocId = Null
  /\ processingQueue = <<>>
  /\ isProcessing = FALSE
  /\ tasks = <<>>
  /\ clock = 1
  /\ hist = <<>>
  /\ download = Null
  /\ call = Null

\* Faulty variant of GenId: the identifier is the time stamp alone.
GenIdTimeOnly(now, suffix) == <<now, 0>>

\* `${Date.now()}-${Math.random().toString(36).slice(2, 8)}`
GenId(now, suffix) == <<now, suffix>>

\* Faulty variant of addFiles: the new records are put before the existing
\* ones ([...newDocs, ...prev]).
addFilesPrepends(files, suffix) ==
  \E newDocs \in {[k \in 1..Len(files) |-> NewDoc(GenId(clock, suffix[k]), files[k])]} :
  LET added == [Cur EXCEPT
                  !.documents = newDocs \o @,
                  !.hist = [k \in 1..Len(files) |-> NewHist] \o @,
                  !.activeDocId = IF IsNull(@) /\ Len(newDocs) > 0
                                  THEN Some(newDocs[1].id) ELSE @,
                  !.processingQueue =
                     @ \o [k \in 1..Len(files) |-> [id |-> newDocs[k].id, file |-> newDocs[k].file]],
                  !.clock = @ + 1]
  IN Apply(processQueue(added))

\* Faulty variant of addFiles: every record of the registry, not only the new
\* ones, is pushed on the pending list.
addFilesRequeuesAll(files, suffix) ==
  \E newDocs \in {[k \in 1..Len(files) |-> NewDoc(GenId(clock, suffix[k]), files[k])]} :
  LET added == [Cur EXCEPT
                  !.documents = @ \o newDocs,
                  !.hist = @ \o [k \in 1..Len(files) |-> NewHist],
                  !.activeDocId = IF IsNull(@) /\ Len(newDocs) > 0
                                  THEN Some(newDocs[1].id) ELSE @,
                  !.processingQueue =
                     @ \o [k \in 1..Len(documents \o newDocs) |->
                             [id |-> (documents \o newDocs)[k].id,
                              file |-> (documents \o newDocs)[k].file]],
                  !.clock = @ + 1]
  IN Apply(processQueue(added))

\* addFiles(files) (lines 147-173); suffix[k] is the random part of the k-th id.
addFiles(files, suffix) ==
  \E newDocs \in {[k \in 1..Len(files) |-> NewDoc(GenId(clock, suffix[k]), files[k])]} :
  LET added == [Cur EXCEPT
                  !.documents = @ \o newDocs,
                  !.hist = @ \o [k \in 1..Len(files) |-> NewHist],
                  !.activeDocId = IF IsNull(@) /\ Len(newDocs) > 0
                                  THEN Some(newDocs[1].id) ELSE @,
                  !.processingQueue =
                     @ \o [k \in 1..Len(files) |-> [id |-> newDocs[k].id, file |-> newDocs[k].file]],
                  !.clock = @ + 1]
  IN Apply(processQueue(added))

\* The random suffixes of one call, taken pairwise distinct: a collision of
\* two six-character base-36 draws is left out of this specification.
DistinctSuffixes(n) == [k \in 1..n |-> k]

\* The user drops or selects between 1 and MaxBatch files (UploadArea never
\* calls with an empty list).
AddFiles ==
  \E n \in 1..MaxBatch :
    /\ Len(documents) + n <= MaxDocs
    /\ \E files \in [1..n -> QueueFiles] : addFiles(files, DistinctSuffixes(n))

\* The timer of a simulator fires (line 70 resolves).
SimTick ==
  \E k \in 1..Len(tasks) :
    /\ tasks[k].sim = "timer"
    /\ Apply(SimulationStep([Cur EXCEPT !.hist = NoteTick(@, documents, tasks[k].id)], k))

\* Faulty variant of StopSimulation: the flag is left set.
StopSimulationForgotten(st, k) == st

\* isSimulationRunning = false (lines 86, 118). The loop index of a stopped
\* simulator is never read again (its next iteration breaks at line 62), so
\* it is cleared with the flag: a stopped simulator has one state.
StopSimulation(st, k) ==
  [st EXCEPT !.tasks[k].isSimulationRunning = FALSE, !.tasks[k].step = 0]

\* The fetch of task k settles with resp (lines 80-90, 117-125).
fetchSettles(k, resp) ==
  \E stopped \in {[StopSimulation(Cur, k) EXCEPT !.tasks[k].response = Some(resp)]} :
  \E written \in {ProcessResponse(resp)} :
    IF IsNull(written)
    THEN Apply([stopped EXCEPT !.tasks[k].pc = "json"])
    ELSE Apply(Settle(stopped, k, Get(written)))

\* response.json() of task k settles (lines 92-125).
jsonSettles(k) ==
  \E written \in {ProcessBody(Get(tasks[k].response), clock)} :
    Apply(Settle(Cur, k, written))

\* The request of some task settles with one of `responses`.
FetchSettlesWith(responses) ==
  \E k \in 1..Len(tasks) :
    /\ tasks[k].pc = "fetch"
    /\ \E resp \in responses : fetchSettles(k, resp)

FetchSettles == FetchSettlesWith(CoreResponses)

JsonSettles ==
  \E k \in 1..Len(tasks) :
    /\ tasks[k].pc = "json"
    /\ jsonSettles(k)

Next == AddFiles \/ SimTick \/ FetchSettles \/ JsonSettles

Spec == Init /\ [][Next]_vars

\* Every pending timer fires and every request and body read settles.
FairSpec == Spec /\ WF_vars(SimTick) /\ WF_vars(FetchSettles) /\ WF_vars(JsonSettles)

\* ------------------------------------------------- single-upload model
\* One file is uploaded and the backend answers with any response shape.
UploadOne ==
  /\ documents = <<>>
  /\ \E file \in Files : addFiles(<<file>>, DistinctSuffixes(1))

UploadSettles == FetchSettlesWith(AllResponses)

UploadNext == UploadOne \/ SimTick \/ UploadSettles \/ JsonSettles

UploadSpec == Init /\ [][UploadNext]_vars

\* ------------------------------------------------------------ merged export
\* components/MergeJsonButton.tsx.  Text is a sequence of one-character
\* strings, so that quote doubling acts on characters.  A claim of the export
\* model is a sequence of <<key, value>> pairs in the insertion order of its
\* keys (the order Object.keys yields for keys that are not integers); a value
\* is a string, a non-negative integer or null.
MaxShown == 3

TextValue(chars) == [t |-> "string", n |-> 0, chars |-> chars]

NumberValue(n) == [t |-> "number", n |-> n, chars |-> <<>>]

NullValue == [t |-> "null", n |-> 0, chars |-> <<>>]

\* The claims of the exported documents: {a: 1}, {b: 2} (the scenario of the
\* union header), a claim with an embedded quote and a null field, and a claim
\* with an embedded comma and a two-digit number under a third key.
ExportClaimA == << << <<"a">>, NumberValue(1) >> >>

ExportClaimB == << << <<"b">>, NumberValue(2) >> >>

ExportClaimQuoted ==
  << << <<"b">>, TextValue(<<"x", "\"", "y">>) >>, << <<"a">>, NullValue >> >>

ExportClaimWide ==
  << << <<"a">>, TextValue(<<"p", ",", "q">>) >>, << <<"c">>, NumberValue(10) >> >>

\* result.claims of a completed document (Null: the schema has no claims list).
ExportClaimLists ==
  {Null, Some(<<>>), Some(<<ExportClaimA>>), Some(<<ExportClaimB>>),
   Some(<<ExportClaimQuoted>>), Some(<<ExportClaimB, ExportClaimWide>>)}

\* The backend answer that leaves a document complete with the claims list c.
ExportBody(c) ==
  [success |-> JSBool(TRUE), error |-> Null,
   data |-> Some([extracted_schema |-> Some([claims |-> c, insured |-> Some("ACME")]),
                  extraction_metadata |-> Null,
                  summary |-> Some([avg_confidence |-> Some(900), claims_count |-> Some(1)])])]

\* The states a registry record is shown in: waiting, being processed,
\* failed, or completed with one of the claims lists.
ExportKinds ==
  {[stage |-> "queued", claims |-> Null], [stage |-> "rotation_check", claims |-> Null],
   [stage |-> "error", claims |-> Null]}
  \cup {[stage |-> "complete", claims |-> c] : c \in ExportClaimLists}

\* The i-th record of a displayed registry, written the way the hook writes it.
ExportDoc(i, kind) ==
  LET queued == NewDoc(GenId(1, i), [name |-> "a.pdf", size |-> 1])
      started == Merge(queued, [stage |-> "rotation_check",
                                stageMessage |-> "Starting processing...",
                                startedAt |-> Some(1)])
  IN CASE kind.stage = "queued" -> queued
       [] kind.stage = "rotation_check" -> started
       [] kind.stage = "error" -> Merge(started, ErrorUpdate(Error("bad pdf")))
       [] kind.stage = "complete" -> Merge(started, ProcessJson(ExportBody(kind.claims), 1))

\* The registries the merge button is rendered for: up to MaxShown records.
ExportRegistries ==
  UNION {{[i \in 1..n |-> ExportDoc(i, kinds[i])] : kinds \in [1..n -> ExportKinds]} :
           n \in 0..MaxShown}

\* Array.prototype.flat of a sequence of sequences.
RECURSIVE Flatten(_)
Flatten(seqs) ==
  IF seqs = <<>> THEN <<>> ELSE Head(seqs) \o Flatten(Tail(seqs))

\* Array.from(new Set(seq)): the members in the order of first insertion.
RECURSIVE InsertionOrder(_)
InsertionOrder(seq) ==
  IF seq = <<>> THEN <<>>
  ELSE LET init == InsertionOrder(SubSeq(seq, 1, Len(seq) - 1))
           last == seq[Len(seq)]
       IN IF \E i \in 1..Len(init) : init[i] = last THEN init ELSE Append(init, last)

\* Array.prototype.join
RECURSIVE Join(_, _)
Join(parts, sep) ==
  IF parts = <<>> THEN <<>>
  ELSE IF Len(parts) = 1 THEN parts[1]
  ELSE parts[1] \o sep \o Join(Tail(parts), sep)

\* Faulty variant of completedDocs: the filter is forgotten and every record
\* of the registry counts.
completedDocsUnfiltered(docs) == docs

\* documents.filter((d) => d.stage === "complete" && d.result)
completedDocs(docs) ==
  SelectSeq(docs, LAMBDA d : d.stage = "complete" /\ ~IsNull(d.result))

\* The component renders (line 12 does not return null).
MergeOffered(docs) == ~(Len(completedDocs(docs)) < 2)

\* completedDocs.flatMap((d) => d.result?.claims || [])
getAllClaims(docs) ==
  LET done == completedDocs(docs)
  IN Flatten([i \in 1..Len(done) |->
                IF IsNull(done[i].result) \/ IsNull(Get(done[i].result).claims)
                THEN <<>>
                ELSE Get(Get(done[i].result).claims)])

\* Object.keys(claim)
Keys(claim) == [i \in 1..Len(claim) |-> claim[i][1]]

\* Array.from(new Set(claims.flatMap((c) => Object.keys(c))))
headersOf(claims) ==
  InsertionOrder(Flatten([i \in 1..Len(claims) |-> Keys(claims[i])]))

\* row[header]: Null when the claim has no such key.
Field(row, header) ==
  IF \E i \in 1..Len(row) : row[i][1] = header
  THEN Some(row[CHOOSE i \in 1..Len(row) : row[i][1] = header][2])
  ELSE Null

Digits == <<"0", "1", "2", "3", "4", "5", "6", "7", "8", "9">>

\* The decimal text of a non-negative integer.
RECURSIVE NumberToText(_)
NumberToText(n) ==
  IF n < 10 THEN <<Digits[n + 1]>>
  ELSE Append(NumberToText(n \div 10), Digits[(n % 10) + 1])

\* '' + (val ?? ''): null and undefined become the empty text.
Stringified(val) ==
  IF IsNull(val) \/ Get(val).t = "null" THEN <<>>
  ELSE IF Get(val).t = "number" THEN NumberToText(Get(val).n)
  ELSE Get(val).chars

\* Faulty variant of replaceQuotes: embedded quotes are left as they are.
replaceQuotesOmitted(text) == text

\* .replace(/"/g, '""')
replaceQuotes(text) ==
  Flatten([i \in 1..Len(text) |-> IF text[i] = "\"" THEN <<"\"", "\"">> ELSE <<text[i]>>])

\* One field of a data row (lines 39-43).
csvField(row, header) ==
  <<"\"">> \o replaceQuotes(Stringified(Field(row, header))) \o <<"\"">>

\* csvRows.join('\n') (lines 34-47)
csvText(claims) ==
  LET headers == headersOf(claims)
      csvRows == <<Join(headers, <<",">>)>> \o
                 [r \in 1..Len(claims) |->
                    Join([c \in 1..Len(headers) |-> csvField(claims[r], headers[c])],
                         <<",">>)]
  IN Join(csvRows, <<"\n">>)

\* The file handed to the browser: its name (with Date.now()), its MIME type
\* and its content, the claims array JSON.stringify serialises or the CSV text.
Blob(kind, now, type, claims, text) ==
  [name |-> <<"merged_claims_", now, kind>>, type |-> type, claims |-> claims, text |-> text]

\* handleDownloadJson (lines 18-27)
handleDownloadJson(st0) ==
  Eval(st0, LAMBDA st :
    [st EXCEPT !.download =
       Some(Blob(".json", st.clock, "application/json", getAllClaims(st.documents), <<>>))])

\* handleDownloadCsv (lines 29-54)
handleDownloadCsv(st0) ==
  Eval(st0, LAMBDA st :
    LET claims == getAllClaims(st.documents)
    IN IF Len(claims) = 0 THEN st
       ELSE [st EXCEPT !.download =
               Some(Blob(".csv", st.clock, "text/csv", <<>>, csvText(claims)))])

\* The user presses "Merge JSON" / "Merge CSV" of the rendered component.
MergeJson == MergeOffered(documents) /\ Apply(handleDownloadJson(Cur))

MergeCsv == MergeOffered(documents) /\ Apply(handleDownloadCsv(Cur))

\* --------------------------------------------------------- export model
\* The merge button is rendered for a registry and its buttons are pressed.
ExportInit ==
  /\ documents \in ExportRegistries
  /\ hist = [i \in 1..Len(documents) |-> NewHist]
  /\ activeDocId = Null
  /\ processingQueue = <<>>
  /\ isProcessing = FALSE
  /\ tasks = <<>>
  /\ clock = 1
  /\ download = Null
  /\ call = Null

ExportNext == MergeJson \/ MergeCsv

ExportSpec == ExportInit /\ [][ExportNext]_vars

\* ------------------------------------------------------ updateDoc model
\* updateDoc(id, updates) called on a registry: the identifiers of the shown
\* records and one that no record carries, and the updates the hook writes
\* (the start write, a simulator step, the error write, the completion write).
UpdateIds == {GenId(1, i) : i \in 1..(MaxShown + 1)}

UpdateSets ==
  {[stage |-> "rotation_check", stageMessage |-> "Starting processing...",
    startedAt |-> Some(1)],
   [stage |-> STAGE_FLOW[3].stage, stageMessage |-> STAGE_FLOW[3].message],
   ErrorUpdate(Error("Failed to fetch")),
   ProcessJson(ScenarioSuccess.json, 1)}

UpdateInit ==
  /\ documents \in ExportRegistries
  /\ hist = [i \in 1..Len(documents) |-> NewHist]
  /\ activeDocId = Null
  /\ processingQueue = <<>>
  /\ isProcessing = FALSE
  /\ tasks = <<>>
  /\ clock = 1
  /\ download = Null
  /\ call \in {Some([id |-> id, updates |-> updates]) : id \in UpdateIds, updates \in UpdateSets}

\* The call is made.
UpdateDoc == Apply(updateDoc(Cur, Get(call).id, Get(call).updates, "update"))

UpdateSpec == UpdateInit /\ [][UpdateDoc]_vars

\* ------------------------------------------------------------ vocabulary
Terminal(stage) == stage \in {"complete", "error"}

Intermediate(stage) == stage \notin {"queued", "complete", "error"}

\* Registry indexes of the records task k writes to.
DocsOf(k) == {i \in 1..Len(documents) : documents[i].id = tasks[k].id}

TypeOK ==
  /\ Len(hist) = Len(documents)
  /\ \A i \in 1..Len(documents) : documents[i].stage \in ProcessingStage
  /\ isProcessing \in BOOLEAN
  /\ \A k \in 1..Len(tasks) : DocsOf(k) # {}

\* ------------------------------------------------------------------ claims
\* The response task k received, and whether it is one of the failures of the
\* error taxonomy (transport failure, non-2xx, malformed body, success false,
\* a body without the data object).
ResponseOf(k) == Get(tasks[k].response)

IsFailure(resp) ==
  \/ resp.kind = "reject"
  \/ ~resp.ok
  \/ ~resp.bodyValid
  \/ resp.json.success = JSBool(FALSE)
  \/ IsNull(resp.json.data)

\* C1: once the authoritative write (stage complete or error) has been applied
\* to a document, it is the last write of that document: no simulator write
\* follows it, whenever the simulator's timers fire.
C1_AuthoritativeWriteIsLast ==
  \A i \in 1..Len(documents) :
    hist[i].authWrites > 0 =>
      /\ hist[i].lastWriter = "outcome"
      /\ hist[i].authWrites = 1
      /\ Terminal(documents[i].stage)

\* A simulator timer has fired after its document's outcome was written.
C1_Witness ==
  \E i \in 1..Len(documents) : hist[i].lateTick /\ hist[i].authWrites > 0

\* C2: at most one document is in an intermediate stage and at most one
\* processDocument (one request, one worker awaiting it) is running, also
\* when addFiles is called while a worker is draining.
C2_SingleWorker ==
  /\ Cardinality({i \in 1..Len(documents) : Intermediate(documents[i].stage)}) <= 1
  /\ Cardinality({k \in 1..Len(tasks) : tasks[k].pc # "done"}) <= 1

\* addFiles was called while the worker was busy with a document of an
\* earlier call: its document waits, a single task runs.
C2_Witness ==
  \E i, j \in 1..Len(documents) :
    /\ documents[i].id[1] < documents[j].id[1]
    /\ Intermediate(documents[i].stage)
    /\ documents[j].stage = "queued"

\* C3: if every request settles, every document ever added reaches stage
\* complete or error.
C3_NoFileLost ==
  \A i \in 1..MaxDocs :
    (Len(documents) >= i) ~> (Len(documents) >= i /\ Terminal(documents[i].stage))

\* A document added by a later call than the first, while the first was
\* still being processed or after the worker had stopped, is settled.
C3_Witness ==
  \E i, j \in 1..Len(documents) :
    /\ documents[i].id[1] < documents[j].id[1]
    /\ Terminal(documents[j].stage)

\* C4: a settled document is either complete with a result, metadata and no
\* error, or in error with a message, no result and no metadata.
C4_SettledShape ==
  \A k \in 1..Len(tasks) : \A i \in DocsOf(k) :
    tasks[k].pc = "done" =>
      \/ /\ documents[i].stage = "complete"
         /\ ~IsNull(documents[i].result)
         /\ ~IsNull(documents[i].metadata)
         /\ IsNull(documents[i].error)
      \/ /\ documents[i].stage = "error"
         /\ ~IsNull(documents[i].error)
         /\ IsNull(documents[i].result)
         /\ IsNull(documents[i].metadata)

\* Both shapes are produced: a settled document is complete.
C4_Witness ==
  \E k \in 1..Len(tasks) : \E i \in DocsOf(k) :
    tasks[k].pc = "done" /\ documents[i].stage = "complete"

\* C5: a record whose stage is complete or error is never changed again.
C5_TerminalIsFinal ==
  [][\A i \in 1..Len(documents) :
       Terminal(documents[i].stage) => documents'[i] = documents[i]]_vars

\* A terminal record has seen a late simulator timer, the start of the next
\* document and a later addFiles call.
C5_Witness ==
  /\ Len(documents) >= 2
  /\ Terminal(documents[1].stage)
  /\ hist[1].lateTick
  /\ documents[1].id[1] < documents[2].id[1]
  /\ documents[2].stage # "queued"

\* C6: a document whose request fails ends in stage error, and the worker
\* goes on: when the failed document is the last one started, the pending
\* list is empty and the worker has stopped.
C6_FailureDoesNotHaltQueue ==
  \A k \in 1..Len(tasks) :
    (tasks[k].pc = "done" /\ IsFailure(ResponseOf(k))) =>
      /\ \A i \in DocsOf(k) : documents[i].stage = "error"
      /\ k = Len(tasks) => (processingQueue = <<>> /\ ~isProcessing)

\* A document failed while another was pending, and the pending one started.
C6_Witness ==
  \E k \in 1..Len(tasks) :
    /\ tasks[k].pc = "done"
    /\ IsFailure(ResponseOf(k))
    /\ k < Len(tasks)

\* C7 (as claimed): a document completes only on a 2xx response whose success
\* field is the boolean true; any other response ends in stage error.
C7_SuccessOnlyWhenTrue ==
  \A k \in 1..Len(tasks) : \A i \in DocsOf(k) :
    tasks[k].pc = "done" =>
      IF /\ ResponseOf(k).kind = "http"
         /\ ResponseOf(k).ok
         /\ ResponseOf(k).bodyValid
         /\ ResponseOf(k).json.success = JSBool(TRUE)
      THEN TRUE
      ELSE documents[i].stage = "error"

\* The avg_confidence field of a completed task's response (Null if absent).
AvgConfidenceOf(k) ==
  IF IsNull(Get(ResponseOf(k).json.data).summary) THEN Null
  ELSE Get(Get(ResponseOf(k).json.data).summary).avg_confidence

\* The summary.claims_count field of a completed task's response.
SummaryCountOf(k) ==
  IF IsNull(Get(ResponseOf(k).json.data).summary) THEN Null
  ELSE Get(Get(ResponseOf(k).json.data).summary).claims_count

\* C8 (as claimed): metadata.confidence is round(avg_confidence * 100) for
\* every supplied avg_confidence, 0 included, and 95 only when it is absent.
C8_ConfidenceScaled ==
  \A k \in 1..Len(tasks) : \A i \in DocsOf(k) :
    (tasks[k].pc = "done" /\ documents[i].stage = "complete") =>
      Get(documents[i].metadata).confidence =
        IF IsNull(AvgConfidenceOf(k)) THEN 95
        ELSE RoundPercent(Get(AvgConfidenceOf(k)))

\* C9 (as claimed): metadata.claims_count is summary.claims_count whenever
\* supplied, 0 included, and the length of the stored claims list otherwise.
C9_ClaimsCountExplicit ==
  \A k \in 1..Len(tasks) : \A i \in DocsOf(k) :
    (tasks[k].pc = "done" /\ documents[i].stage = "complete") =>
      Get(documents[i].metadata).claims_count =
        IF IsNull(SummaryCountOf(k))
        THEN Len(Get(Get(documents[i].result).claims))
        ELSE Get(SummaryCountOf(k))

\* C10: documents leave stage queued in the order they were appended: the
\* k-th document started is the k-th record of the registry, and the records
\* still queued are, in order, the items of the pending list.
C10_Fifo ==
  /\ \A k \in 1..Len(tasks) : tasks[k].id = documents[k].id
  /\ \A i, j \in 1..Len(documents) :
       (i < j /\ documents[j].stage # "queued") => documents[i].stage # "queued"

\* Two documents have been started, the second after waiting in the list
\* behind the first.
C10_Witness ==
  /\ Len(tasks) >= 2
  /\ tasks[1].id = documents[1].id
  /\ tasks[2].id = documents[2].id
  /\ documents[1].id # documents[2].id


\* The number of requests issued for the record i: one per processDocument
\* invocation on its identifier (line 80).
RequestsFor(i) == Cardinality({k \in 1..Len(tasks) : tasks[k].id = documents[i].id})

\* C11: no request has been issued for a queued document and exactly one for
\* a document that has started, whatever its outcome: a failed document is
\* never requested again.
C11_OneRequestPerDocument ==
  \A i \in 1..Len(documents) :
    RequestsFor(i) = IF documents[i].stage = "queued" THEN 0 ELSE 1

\* A document has failed and the worker has since settled a later document.
C11_Witness ==
  /\ Len(documents) >= 2
  /\ documents[1].stage = "error"
  /\ Terminal(documents[2].stage)
  /\ RequestsFor(1) = 1

C15_HttpErrorOutcome ==
  \A k \in 1..Len(tasks) : \A i \in DocsOf(k) :
    (~IsNull(tasks[k].response) /\ ResponseOf(k).kind = "http" /\ ~ResponseOf(k).ok) =>
      /\ tasks[k].pc = "done"
      /\ documents[i].stage = "error"
      /\ documents[i].error = Some("Server error: " \o ResponseOf(k).statusText)
      /\ Get(documents[i].error) # ""
      /\ IsNull(documents[i].result)
      /\ IsNull(documents[i].metadata)

\* A non-2xx answer with an empty status text (HTTP/2) has been handled.
C15_Witness ==
  \E k \in 1..Len(tasks) :
    /\ tasks[k].pc = "done"
    /\ ResponseOf(k) = HttpError("")

\* C16: a 2xx answer with success false ends the document in stage error
\* whose message is the body's error text when it has a non-empty one, and
\* "Unknown backend error" otherwise.
C16_BackendErrorText ==
  \A k \in 1..Len(tasks) : \A i \in DocsOf(k) :
    (/\ tasks[k].pc = "done"
     /\ ResponseOf(k).kind = "http" /\ ResponseOf(k).ok /\ ResponseOf(k).bodyValid
     /\ ResponseOf(k).json.success = JSBool(FALSE)) =>
      /\ documents[i].stage = "error"
      /\ documents[i].error \in {Some("bad pdf"), Some("Unknown backend error")}
      /\ documents[i].error = Some("bad pdf") <=> ResponseOf(k).json.error = Some("bad pdf")

\* Both texts occur: here the server text "bad pdf" has been recorded.
C16_Witness ==
  \E k \in 1..Len(tasks) : \E i \in DocsOf(k) :
    /\ tasks[k].pc = "done"
    /\ ResponseOf(k).json.success = JSBool(FALSE)
    /\ ResponseOf(k).json.error = Some("bad pdf")
    /\ documents[i].error = Some("bad pdf")


\* The position of a stage in the order queued, STAGE_ORDER (error has none).
StageRank(stage) ==
  IF stage = "queued" THEN 0
  ELSE CHOOSE r \in 1..Len(STAGE_ORDER) : STAGE_ORDER[r] = stage

\* C17: a change of a document's stage is either a move forward in the order
\* queued, rotation_check, ..., validation made by the worker's start or by
\* the simulator, or the one jump from a non-terminal stage to complete or
\* error made by the network outcome.
C17_StageMonotonic ==
  [][\A i \in 1..Len(documents) :
       documents'[i].stage # documents[i].stage =>
         \/ /\ hist'[i].lastWriter \in {"start", "simulator"}
            /\ ~Terminal(documents[i].stage)
            /\ ~Terminal(documents'[i].stage)
            /\ StageRank(documents[i].stage) < StageRank(documents'[i].stage)
         \/ /\ hist'[i].lastWriter = "outcome"
            /\ hist'[i].authWrites = 1
            /\ ~Terminal(documents[i].stage)
            /\ Terminal(documents'[i].stage)]_vars

\* The simulator has walked a document through the whole order to validation
\* after an earlier document made the jump to a terminal stage.
C17_Witness ==
  /\ Len(documents) >= 2
  /\ Terminal(documents[1].stage)
  /\ documents[2].stage = "validation"
  /\ hist[2].lastWriter = "simulator"

\* C18: a document is complete or in error only once its own request has
\* settled; while a request is unsettled its document is in an intermediate
\* stage (validation once the script is exhausted), it is the last document
\* started, and every later document is still queued.
C18_OutcomeOnlyFromRequest ==
  /\ \A i \in 1..Len(documents) :
       Terminal(documents[i].stage) =>
         \E k \in 1..Len(tasks) :
           /\ tasks[k].id = documents[i].id
           /\ tasks[k].pc = "done"
           /\ ~IsNull(tasks[k].response)
  /\ \A k \in 1..Len(tasks) :
       tasks[k].pc = "fetch" =>
         /\ k = Len(tasks)
         /\ IsNull(tasks[k].response)
         /\ \A i \in DocsOf(k) :
              /\ Intermediate(documents[i].stage)
              /\ tasks[k].sim = "exited" => documents[i].stage = "validation"
         /\ \A i \in 1..Len(documents) :
              i \notin DocsOf(k) => (Terminal(documents[i].stage) \/ documents[i].stage = "queued")
         /\ Len(processingQueue) =
              Cardinality({i \in 1..Len(documents) : documents[i].stage = "queued"})

\* The script is exhausted, the request is still unsettled and a document
\* waits behind it.
C18_Witness ==
  \E k \in 1..Len(tasks) :
    /\ tasks[k].pc = "fetch"
    /\ tasks[k].sim = "exited"
    /\ processingQueue # <<>>

\* C19: no record ever has both a result and an error, and a record has a
\* result or metadata only in stage complete.
C19_ResultErrorExclusive ==
  \A i \in 1..Len(documents) :
    /\ ~(~IsNull(documents[i].result) /\ ~IsNull(documents[i].error))
    /\ ~IsNull(documents[i].result) => documents[i].stage = "complete"
    /\ ~IsNull(documents[i].metadata) => documents[i].stage = "complete"

\* A 2xx answer has arrived and its body is being read: the record is still
\* in an intermediate stage, without result, metadata or error.
C19_Witness ==
  \E k \in 1..Len(tasks) : \E i \in DocsOf(k) :
    /\ tasks[k].pc = "json"
    /\ ResponseOf(k).json.success = JSBool(TRUE)
    /\ Intermediate(documents[i].stage)
    /\ IsNull(documents[i].result)
    /\ IsNull(documents[i].error)

\* C20: the stored result is the response's extracted_schema, field for
\* field, and an object with an empty claims list when the response has none;
\* the derived metadata is held in its own field.
C20_ResultVerbatim ==
  \A k \in 1..Len(tasks) : \A i \in DocsOf(k) :
    (tasks[k].pc = "done" /\ documents[i].stage = "complete") =>
      /\ documents[i].result =
           IF IsNull(Get(ResponseOf(k).json.data).extracted_schema)
           THEN Some([claims |-> Some(<<>>), insured |-> Null])
           ELSE Get(ResponseOf(k).json.data).extracted_schema
      /\ DOMAIN Get(documents[i].result) = {"claims", "insured"}
      /\ ~IsNull(documents[i].metadata)

\* A schema without a claims list has been stored as it came (the summary
\* supplied the claim count).
C20_Witness ==
  \E k \in 1..Len(tasks) : \E i \in DocsOf(k) :
    /\ tasks[k].pc = "done"
    /\ documents[i].stage = "complete"
    /\ IsNull(Get(documents[i].result).claims)


\* ------------------------------------------------- claims on the export
\* Registry indexes of the documents in stage complete with a result.
CompletedIndexes ==
  {i \in 1..Len(documents) :
     documents[i].stage = "complete" /\ ~IsNull(documents[i].result)}

\* The claims of the completed documents among the first i records, in
\* document-then-claim order.
RECURSIVE ClaimsThrough(_)
ClaimsThrough(i) ==
  IF i = 0 THEN <<>>
  ELSE ClaimsThrough(i - 1) \o
       (IF i \in CompletedIndexes /\ ~IsNull(Get(documents[i].result).claims)
        THEN Get(Get(documents[i].result).claims)
        ELSE <<>>)

\* A reader of CSV text.  A double quote opens or closes a quoted run and a
\* doubled quote inside a run is one quote character, so a character is
\* outside every run when an even number of quotes precedes it; a line feed
\* outside a run ends a row and a comma outside a run ends a cell.
QuotesIn(text, i) == Cardinality({j \in 1..i : text[j] = "\""})

Breaks(text, sep) ==
  {i \in 1..Len(text) : text[i] = sep /\ QuotesIn(text, i - 1) % 2 = 0}

\* The members of a set of positions in increasing order.
Ascending(positions) ==
  [k \in 1..Cardinality(positions) |->
     CHOOSE p \in positions : Cardinality({q \in positions : q < p}) = k - 1]

\* The pieces of text between the separators outside quoted runs.
Pieces(text, sep) ==
  LET cuts == <<0>> \o Ascending(Breaks(text, sep)) \o <<Len(text) + 1>>
  IN [k \in 1..(Len(cuts) - 1) |-> SubSeq(text, cuts[k] + 1, cuts[k + 1] - 1)]

\* The characters a quoted run denotes: of each doubled quote, one.
Undoubled(inner) ==
  LET kept == {j \in 1..Len(inner) : inner[j] # "\"" \/ QuotesIn(inner, j) % 2 = 0}
      at == Ascending(kept)
  IN [k \in 1..Len(at) |-> inner[at[k]]]

ReadCell(piece) ==
  IF Len(piece) >= 2 /\ piece[1] = "\"" /\ piece[Len(piece)] = "\""
  THEN [chars |-> Undoubled(SubSeq(piece, 2, Len(piece) - 1)), quoted |-> TRUE]
  ELSE [chars |-> piece, quoted |-> FALSE]

ParseCsv(text) ==
  LET lines == Pieces(text, "\n")
  IN [r \in 1..Len(lines) |->
        LET cells == Pieces(lines[r], ",")
        IN [c \in 1..Len(cells) |-> ReadCell(cells[c])]]

\* The table a produced CSV download denotes.
TableOf(blob) == ParseCsv(blob.text)

\* The keys of the merged claims and, for a key, where it is first seen: the
\* first claim holding it and its place among that claim's keys.
KeysOf(claims) ==
  UNION {{claims[r][j][1] : j \in 1..Len(claims[r])} : r \in 1..Len(claims)}

Holds(claim, key) == \E j \in 1..Len(claim) : claim[j][1] = key

ValueAt(claim, key) == claim[CHOOSE j \in 1..Len(claim) : claim[j][1] = key][2]

FirstClaimWith(claims, key) ==
  CHOOSE r \in 1..Len(claims) :
    Holds(claims[r], key) /\ \A q \in 1..(r - 1) : ~Holds(claims[q], key)

PlaceIn(claim, key) == CHOOSE j \in 1..Len(claim) : claim[j][1] = key

SeenBefore(claims, k1, k2) ==
  LET r1 == FirstClaimWith(claims, k1)
      r2 == FirstClaimWith(claims, k2)
  IN r1 < r2 \/ (r1 = r2 /\ PlaceIn(claims[r1], k1) < PlaceIn(claims[r2], k2))

\* The union of the keys of the claims, each once, in first-seen order.
FirstSeenOrder(claims) ==
  CHOOSE h \in [1..Cardinality(KeysOf(claims)) -> KeysOf(claims)] :
    \A a, b \in DOMAIN h : a < b => SeenBefore(claims, h[a], h[b])

\* String(value) of JavaScript.
StringOf(value) ==
  CASE value.t = "string" -> value.chars
    [] value.t = "number" -> NumberToText(value.n)
    [] value.t = "null" -> <<"n", "u", "l", "l">>

\* The content of the cell of `claim` under column `key`: empty for a column
\* the claim lacks, the stringified value for one it holds.
CellStringified(claim, key) ==
  IF Holds(claim, key) THEN StringOf(ValueAt(claim, key)) ELSE <<>>

\* As CellStringified, but a value of null counts as a lacking column.
CellNullAsEmpty(claim, key) ==
  IF Holds(claim, key) /\ ValueAt(claim, key).t # "null"
  THEN StringOf(ValueAt(claim, key))
  ELSE <<>>

\* The produced CSV text denotes: a header row listing FirstSeenOrder, then one
\* row per claim of the completed documents, in document-then-claim order,
\* every field of which is double-quoted and reads as Cell(claim, column).
CsvDenotes(blob, Cell(_, _)) ==
  LET claims == ClaimsThrough(Len(documents))
      header == FirstSeenOrder(claims)
      table == TableOf(blob)
  IN /\ Len(table) = Len(claims) + 1
     /\ [c \in 1..Len(table[1]) |-> table[1][c].chars] = header
     /\ \A r \in 1..Len(claims) :
          /\ Len(table[r + 1]) = Len(header)
          /\ \A c \in 1..Len(header) :
               /\ table[r + 1][c].quoted
               /\ table[r + 1][c].chars = Cell(claims[r], header[c])

IsCsv(d) == ~IsNull(d) /\ Get(d).type = "text/csv"

IsJson(d) == ~IsNull(d) /\ Get(d).type = "application/json"

\* C13 as stated: in a merged CSV export the header row lists the union of
\* the keys of the included claims in first-seen order, there is one data row
\* per claim in document-then-claim order, a column the claim lacks is an empty
\* double-quoted field and every value the claim holds is stringified, its
\* quotes doubled, and wrapped in double quotes.
C13_CsvPresentValuesStringified ==
  IsCsv(download) => CsvDenotes(Get(download), CellStringified)

\* C13, amended: as above, except that a column the claim lacks or holds as
\* null renders as the empty double-quoted field; every other value is
\* stringified, its quotes doubled, and wrapped in double quotes.
C13_CsvNullAsEmpty ==
  IsCsv(download) => CsvDenotes(Get(download), CellNullAsEmpty)

\* A merged CSV was produced from claims with different key sets, one of which
\* holds a value with an embedded quote and another lacks that column.
C13_Witness ==
  /\ IsCsv(download)
  /\ LET claims == ClaimsThrough(Len(documents))
     IN \E r, q \in 1..Len(claims) : \E key \in KeysOf(claims) :
          /\ ~Holds(claims[r], key)
          /\ Holds(claims[q], key)
          /\ ValueAt(claims[q], key).t = "string"
          /\ \E i \in 1..Len(ValueAt(claims[q], key).chars) :
               ValueAt(claims[q], key).chars[i] = "\""

\* C14: the merge operations are offered, and a merged file exists, only when
\* at least two documents are in stage complete with a result, and a merged
\* file holds the claims of those documents and of no other: the merged JSON
\* is their claims in order, the merged CSV has one data row for each.
C14_MergeOnlyCompleted ==
  /\ (ENABLED MergeJson \/ ENABLED MergeCsv \/ ~IsNull(download))
       => Cardinality(CompletedIndexes) >= 2
  /\ IsJson(download) => Get(download).claims = ClaimsThrough(Len(documents))
  /\ IsCsv(download) => Len(TableOf(Get(download))) = Len(ClaimsThrough(Len(documents))) + 1

\* A merged JSON was produced for a registry that also shows a document that
\* is not complete, and it holds claims.
C14_Witness ==
  /\ IsJson(download)
  /\ Get(download).claims # <<>>
  /\ \E i \in 1..Len(documents) : documents[i].stage \in {"queued", "rotation_check", "error"}


\* ---------------------------------------- claims on the registry records
\* C21: updateDoc(id, updates) keeps the number and the order of the records,
\* leaves every record with another identifier as it is, gives the record
\* with identifier id the fields of updates and leaves its other fields, and
\* changes nothing when no record carries id.
C21_UpdateOnlyTarget ==
  [][LET id == Get(call).id
         updates == Get(call).updates
     IN /\ Len(documents') = Len(documents)
        /\ \A i \in 1..Len(documents) :
             IF documents[i].id = id
             THEN /\ DOMAIN documents'[i] = DOMAIN documents[i]
                  /\ \A f \in DOMAIN documents[i] :
                       documents'[i][f] = IF f \in DOMAIN updates THEN updates[f]
                                          ELSE documents[i][f]
             ELSE documents'[i] = documents[i]
        /\ (\A i \in 1..Len(documents) : documents[i].id # id) => documents' = documents]_vars

\* The call was made on a registry of several records and rewrote its target,
\* which now shows the written stage next to a record in another stage.
C21_Witness ==
  /\ ~IsNull(call)
  /\ \E i, j \in 1..Len(documents) :
       /\ documents[i].id = Get(call).id
       /\ hist[i].lastWriter = "update"
       /\ documents[i].stage = Get(call).updates.stage
       /\ documents[j].id # Get(call).id
       /\ documents[j].stage # documents[i].stage


\* C22: in every step (an addFiles call, a simulator tick, a request or a body
\* read settling) every record of the registry stays at its place with its
\* identifier, file handle, display name and byte size; no record is removed
\* and new records come after the existing ones.
C22_IdentityStable ==
  [][/\ Len(documents') >= Len(documents)
     /\ \A i \in 1..Len(documents) :
          /\ documents'[i].id = documents[i].id
          /\ documents'[i].file = documents[i].file
          /\ documents'[i].name = documents[i].name
          /\ documents'[i].size = documents[i].size]_vars

\* A record that was started, ticked and settled is followed by a record of a
\* later addFiles call.
C22_Witness ==
  /\ Len(documents) >= 2
  /\ Terminal(documents[1].stage)
  /\ hist[1].lastWriter = "outcome"
  /\ documents[2].id[1] > documents[1].id[1]
  /\ documents[1].name = documents[1].file.name


\* C23: startedAt is null exactly while the stage is queued, completedAt is
\* set exactly when the stage is complete (so it stays null for a document in
\* error), and a timestamp that is set is never written again.
C23_TimestampsSetOnce ==
  /\ [](\A i \in 1..Len(documents) :
          /\ IsNull(documents[i].startedAt) <=> documents[i].stage = "queued"
          /\ ~IsNull(documents[i].completedAt) <=> documents[i].stage = "complete")
  /\ [][\A i \in 1..Len(documents) :
          /\ ~IsNull(documents[i].startedAt) =>
               documents'[i].startedAt = documents[i].startedAt
          /\ ~IsNull(documents[i].completedAt) =>
               documents'[i].completedAt = documents[i].completedAt]_vars

\* One document ended in error, started but without completedAt, and another
\* ended complete with both timestamps, the second started at a later time.
C23_Witness ==
  \E i, j \in 1..Len(documents) :
    /\ documents[i].stage = "error"
    /\ ~IsNull(documents[i].startedAt)
    /\ IsNull(documents[i].completedAt)
    /\ documents[j].stage = "complete"
    /\ ~IsNull(documents[j].completedAt)
    /\ ~IsNull(documents[j].startedAt)
    /\ documents[j].startedAt # documents[i].startedAt


\* Places of the pending list that hold the (id, file) pair of record i.
PendingPlaces(queue, docs, i) ==
  {q \in 1..Len(queue) : queue[q].id = docs[i].id /\ queue[q].file = docs[i].file}

\* C24: after every task of the event loop a document is in stage queued
\* exactly when its (id, file) pair is in the pending list, the pair is there
\* at most once, and a pair that has left the list never enters it again.
C24_QueuedIffPending ==
  /\ [](\A i \in 1..Len(documents) :
          /\ documents[i].stage = "queued" <=>
               PendingPlaces(processingQueue, documents, i) # {}
          /\ Cardinality(PendingPlaces(processingQueue, documents, i)) <= 1)
  /\ [][\A i \in 1..Len(documents) :
          PendingPlaces(processingQueue, documents, i) = {} =>
            PendingPlaces(processingQueue', documents', i) = {}]_vars

\* One document waits in the pending list, at its head, while an earlier one,
\* dequeued, is being processed.
C24_Witness ==
  /\ Len(documents) >= 2
  /\ Intermediate(documents[1].stage)
  /\ documents[2].stage = "queued"
  /\ PendingPlaces(processingQueue, documents, 2) = {1}
  /\ PendingPlaces(processingQueue, documents, 1) = {}


\* Some document is between its start write and its outcome.
InFlight == \E i \in 1..Len(documents) : Intermediate(documents[i].stage)

\* C25: after every task of the event loop, a cleared is-processing flag means
\* that the pending list is empty and no document is in an intermediate stage
\* (no item is stranded), a set flag means that a document is being processed,
\* and a set flag is always cleared again.
C25_FlagTracksWork ==
  /\ [](~isProcessing => processingQueue = <<>> /\ ~InFlight)
  /\ [](isProcessing => InFlight)
  /\ (isProcessing ~> ~isProcessing)

\* The worker ran, served several documents and cleared the flag with the
\* pending list drained.
C25_Witness ==
  /\ ~isProcessing
  /\ Len(documents) >= 2
  /\ processingQueue = <<>>
  /\ \A i \in 1..Len(documents) : hist[i].lastWriter = "outcome"

====
